---- MODULE Spec2Model ----
(***************************************************************************)
(* The dataset builds of the repository: the locked top-k build            *)
(* (data/data_cleaning.py) that keeps a persisted list of 15 evaluation    *)
(* URLs, the selection function deterministic_top_k it rests on, and the   *)
(* ratio build (scripts/data_cleaning.py) with its function assign_split.  *)
(***************************************************************************)
EXTENDS Integers, Sequences, FiniteSets, TLC

VARIABLES
    pc,             \* position of the __main__ script of data/data_cleaning.py
    urls,           \* the list loaded from data/urls.txt (line 76)
    eval_urls_txt,  \* data/eval_urls.txt on disk: NoFile, or its lines
    saved_eval,     \* the script's saved_eval list
    eval_set,       \* set(saved_eval) (line 96)
    idx,            \* position of the for-loop of line 103 (urls already handled)
    failures,       \* fetches that raised in this run
    all_f,          \* data/cleaned_data.jsonl on disk: the records' source_url
    train_f,        \* data/train.jsonl on disk
    eval_f,         \* data/eval.jsonl on disk
    events,         \* history: the file operations and the failed fetches of
                    \*   this run, in order
    rel,            \* history: this run's universe against the previous run's
    track,          \* history: whether the three sets below are recorded
    everLocked,     \* history: identifiers ever written to eval_urls.txt
    everEval,       \* history: identifiers ever labelled eval
    everTrain,      \* history: identifiers ever labelled train
    tk_pc,          \* the calls of deterministic_top_k on drawn inputs
    tk_urls,        \*   the list passed in
    tk_perm,        \*   the same identifiers in another order
    tk_k,           \*   k
    tk_out,         \*   deterministic_top_k(tk_urls, tk_k)
    tk_out_perm,    \*   deterministic_top_k(tk_perm, tk_k)
    as_pc,          \* the calls of assign_split on drawn inputs
    as_url,         \*   url
    as_ratio,       \*   train_ratio
    as_val,         \*   val (line 61)
    as_out,         \*   assign_split(as_url, as_ratio)
    as_ratio2,      \*   another train_ratio
    as_out2,        \*   assign_split(as_url, as_ratio2)
    me_pc,          \* position of main() of main_exploratory.py
    environ,        \*   os.environ: the value of each API key variable
    train_jsonl,    \*   ../data/train.jsonl: absent, or a file of some records
    records,        \*   len(records) once loaded
    models,         \*   models (line 221)
    saved_files,    \*   saved_files, each file by its record index
    record_index,   \*   record_index of the outer loop (line 261)
    model_index,    \*   position of the inner loop in models (line 265)
    attempts,       \*   history: the calls of run_model_on_file, in order
    successful_runs,
    total_runs

main_vars == <<pc, urls, eval_urls_txt, saved_eval, eval_set, idx, failures,
               all_f, train_f, eval_f, events, rel,
               track, everLocked, everEval, everTrain>>
tk_vars == <<tk_pc, tk_urls, tk_perm, tk_k, tk_out, tk_out_perm>>
as_vars == <<as_pc, as_url, as_ratio, as_val, as_out, as_ratio2, as_out2>>
me_vars == <<me_pc, environ, train_jsonl, records, models, saved_files,
             record_index, model_index, attempts, successful_runs, total_runs>>
call_vars == <<tk_vars, as_vars, me_vars>>
vars == <<main_vars, tk_vars, as_vars, me_vars>>

(***************************************************************************)
(* Identifiers.  Sixteen one-letter stand-ins for URLs and two distinct    *)
(* ASCII strings whose MD5 digests are equal, with the digests hashlib     *)
(* computes for them (32 hex digits, most significant first).              *)
(***************************************************************************)
X1 == "TEXTCOLLBYfGiJUETHQ4hAcKSMd5zYpgqf1YRDhkmxHkhPWptrkoyz28wnI9V0aHeAuaKnak"
X2 == "TEXTCOLLBYfGiJUETHQ4hEcKSMd5zYpgqf1YRDhkmxHkhPWptrkoyz28wnI9V0aHeAuaKnak"

MD5Table ==
       ("a" :> <<0,12,12,1,7,5,11,9,12,0,15,1,11,6,10,8,3,1,12,3,9,9,14,2,6,9,7,7,2,6,6,1>>)  \* 0cc175b9c0f1b6a831c399e269772661
    @@ ("b" :> <<9,2,14,11,5,15,15,14,14,6,10,14,2,15,14,12,3,10,13,7,1,12,7,7,7,5,3,1,5,7,8,15>>)  \* 92eb5ffee6ae2fec3ad71c777531578f
    @@ ("c" :> <<4,10,8,10,0,8,15,0,9,13,3,7,11,7,3,7,9,5,6,4,9,0,3,8,4,0,8,11,5,15,3,3>>)  \* 4a8a08f09d37b73795649038408b5f33
    @@ ("d" :> <<8,2,7,7,14,0,9,1,0,13,7,5,0,1,9,5,11,4,4,8,7,9,7,6,1,6,14,0,9,1,10,13>>)  \* 8277e0910d750195b448797616e091ad
    @@ ("e" :> <<14,1,6,7,1,7,9,7,12,5,2,14,1,5,15,7,6,3,3,8,0,11,4,5,14,8,4,1,14,12,3,2>>)  \* e1671797c52e15f763380b45e841ec32
    @@ ("f" :> <<8,15,10,1,4,12,13,13,7,5,4,15,9,1,12,12,6,5,5,4,12,9,14,7,1,9,2,9,12,12,14,7>>)  \* 8fa14cdd754f91cc6554c9e71929cce7
    @@ ("g" :> <<11,2,15,5,15,15,4,7,4,3,6,6,7,1,11,6,14,5,3,3,13,8,13,12,3,6,1,4,8,4,5,13>>)  \* b2f5ff47436671b6e533d8dc3614845d
    @@ ("h" :> <<2,5,1,0,12,3,9,0,1,1,12,5,11,14,7,0,4,1,8,2,4,2,3,14,3,10,6,9,5,14,9,1>>)  \* 2510c39011c5be704182423e3a695e91
    @@ ("i" :> <<8,6,5,12,0,12,0,11,4,10,11,0,14,0,6,3,14,5,12,10,10,3,3,8,7,12,1,10,8,7,4,1>>)  \* 865c0c0b4ab0e063e5caa3387c1a8741
    @@ ("j" :> <<3,6,3,11,1,2,2,12,5,2,8,15,5,4,13,15,4,10,0,4,4,6,11,6,11,10,11,0,5,5,1,5>>)  \* 363b122c528f54df4a0446b6bab05515
    @@ ("k" :> <<8,12,14,4,11,1,6,11,2,2,11,5,8,8,9,4,10,10,8,6,12,4,2,1,14,8,7,5,9,13,15,3>>)  \* 8ce4b16b22b58894aa86c421e8759df3
    @@ ("l" :> <<2,13,11,9,5,14,8,14,1,10,9,2,6,7,11,7,10,1,1,8,8,5,5,6,11,2,0,1,3,11,3,3>>)  \* 2db95e8e1a9267b7a1188556b2013b33
    @@ ("m" :> <<6,15,8,15,5,7,7,1,5,0,9,0,13,10,2,6,3,2,4,5,3,9,8,8,13,9,10,1,5,0,1,11>>)  \* 6f8f57715090da2632453988d9a1501b
    @@ ("n" :> <<7,11,8,11,9,6,5,10,13,4,11,12,10,0,14,4,1,10,11,5,1,13,14,7,11,3,1,3,6,3,10,1>>)  \* 7b8b965ad4bca0e41ab51de7b31363a1
    @@ ("o" :> <<13,9,5,6,7,9,7,5,2,1,3,4,10,2,13,9,14,11,6,1,13,11,13,7,11,9,1,12,4,11,12,12>>)  \* d95679752134a2d9eb61dbd7b91c4bcc
    @@ ("p" :> <<8,3,8,7,8,12,9,1,1,7,1,3,3,8,9,0,2,14,0,15,14,0,15,11,9,7,10,8,12,4,7,10>>)  \* 83878c91171338902e0fe0fb97a8c47a
    @@ (X1 :> <<15,10,10,13,4,9,8,6,6,14,9,4,9,8,15,12,1,7,1,9,15,5,2,8,9,14,7,10,0,2,6,9>>)  \* faad49866e9498fc1719f5289e7a0269
    @@ (X2 :> <<15,10,10,13,4,9,8,6,6,14,9,4,9,8,15,12,1,7,1,9,15,5,2,8,9,14,7,10,0,2,6,9>>)  \* faad49866e9498fc1719f5289e7a0269

Ids == DOMAIN MD5Table

\* hashlib.md5(u.encode("utf-8")).hexdigest()
hexdigest(u) == MD5Table[u]

\* str < str on two hex digests: Python compares strings code point by code
\* point, and on lower-case hex digits that is the order of the digit values.
RECURSIVE HexLessFrom(_, _, _)
HexLessFrom(h1, h2, n) ==
    IF n > Len(h1) \/ n > Len(h2) THEN Len(h1) < Len(h2)
    ELSE IF h1[n] # h2[n] THEN h1[n] < h2[n]
    ELSE HexLessFrom(h1, h2, n + 1)

HexLess(h1, h2) == HexLessFrom(h1, h2, 1)

\* a sort that leaves the pairs in their input order
InsertByKey_append(sorted_, t) == Append(sorted_, t)

\* Places the pair t in a list already sorted by digest, after every pair whose
\* digest is not greater: sorted() is stable, equal keys keep their input order.
RECURSIVE InsertByKey(_, _)
InsertByKey(sorted_, t) ==
    IF sorted_ = <<>> THEN <<t>>
    ELSE IF HexLess(t[2], Head(sorted_)[2]) THEN <<t>> \o sorted_
    ELSE <<Head(sorted_)>> \o InsertByKey(Tail(sorted_), t)

\* sorted(pairs, key=lambda t: t[1])
RECURSIVE SortedByKeyFrom(_, _, _)
SortedByKeyFrom(pairs, n, acc) ==
    IF n > Len(pairs) THEN acc
    ELSE SortedByKeyFrom(pairs, n + 1, InsertByKey(acc, pairs[n]))

SortedByKey(pairs) == SortedByKeyFrom(pairs, 1, <<>>)

\* a slice that was forgotten: the whole sorted list is returned
SliceTo_forgotten(s, k) == s

\* a slice that takes one element too many
SliceTo_oneMore(s, k) == SubSeq(s, 1, IF k + 1 < Len(s) THEN k + 1 ELSE Len(s))

\* s[:k] of a Python list: the first k elements, all of them when k exceeds the
\* length, and all but the last -k when k is negative.
SliceTo(s, k) ==
    IF k >= 0 THEN SubSeq(s, 1, IF k < Len(s) THEN k ELSE Len(s))
    ELSE SubSeq(s, 1, IF Len(s) + k > 0 THEN Len(s) + k ELSE 0)

\* a selection that reads a module-level list instead of its argument
AllKnownUrls == <<"a", "b", X1, X2>>
deterministic_top_k_ofGlobal(us, k) ==
    LET pairs == [n \in 1..Len(AllKnownUrls) |->
                     <<AllKnownUrls[n], hexdigest(AllKnownUrls[n])>>]
        top   == SliceTo(SortedByKey(pairs), k)
    IN  [n \in 1..Len(top) |-> top[n][1]]

\* deterministic_top_k(urls, k)
deterministic_top_k(us, k) ==
    LET pairs == [n \in 1..Len(us) |-> <<us[n], hexdigest(us[n])>>]
        top   == SliceTo(SortedByKey(pairs), k)
    IN  [n \in 1..Len(top) |-> top[n][1]]

\* The target size the script writes as the literal 15.
TargetSize == 15

(***************************************************************************)
(* Files.  A text file is the sequence of its lines, each line already     *)
(* stripped; a blank line is the empty string.                             *)
(***************************************************************************)
Blank == ""
CommentLine == "# exhibits"
NoFile == [exists |-> FALSE, lines |-> <<>>]
FileOf(ls) == [exists |-> TRUE, lines |-> ls]

Range(s) == {s[n] : n \in 1..Len(s)}

\* ln.startswith("#"): of the lines drawn here only CommentLine begins with #
StartsWithHash(ln) == ln = CommentLine

\* [ln.strip() for ln in f if ln.strip() and not ln.startswith("#")]
LoadUrls(ls) == SelectSeq(ls, LAMBDA ln : ln # Blank /\ ~StartsWithHash(ln))

\* a reader that takes the first line of the file for a header
ReadEvalUrls_skipsFirst(ls) ==
    SelectSeq(IF ls = <<>> THEN ls ELSE Tail(ls), LAMBDA ln : ln # Blank)

\* [ln.strip() for ln in f if ln.strip()]
ReadEvalUrls(ls) == SelectSeq(ls, LAMBDA ln : ln # Blank)

\* a write that leaves the last entry of the list out
WriteEvalUrls_dropsLast(saved) ==
    IF Len(saved) <= 1 THEN <<Blank>> ELSE SubSeq(saved, 1, Len(saved) - 1)

\* the lines of "\n".join(saved_eval) + "\n": one line per entry, and for an
\* empty list the single character "\n", which is one blank line
WriteEvalUrls(saved) == IF saved = <<>> THEN <<Blank>> ELSE saved

\* a filter that was forgotten: entries no longer in urls stay
Kept_unfiltered(saved, us) == saved

\* a filter that also drops the last entry it would keep
Kept_withoutLast(saved, us) ==
    LET kept == SelectSeq(saved, LAMBDA u : u \in Range(us))
    IN  IF kept = <<>> THEN kept ELSE SubSeq(kept, 1, Len(kept) - 1)

\* [u for u in saved_eval if u in urls]
Kept(saved, us) == SelectSeq(saved, LAMBDA u : u \in Range(us))

\* a top-up drawn from all of urls, kept entries included
Remaining_all(us, saved) == us

\* [u for u in urls if u not in saved_eval]
Remaining(us, saved) == SelectSeq(us, LAMBDA u : u \notin Range(saved))

\* a reconciliation that ignores the locked file and selects afresh
Reconcile_afresh(file, us) == deterministic_top_k(us, TargetSize)

\* a reconciliation that puts the top-up in front of the kept entries
Reconcile_topUpFirst(file, us) ==
    IF file.exists
    THEN LET kept == SelectSeq(SelectSeq(file.lines, LAMBDA ln : ln # Blank),
                               LAMBDA u : u \in {us[n] : n \in 1..Len(us)})
             rest == SelectSeq(us, LAMBDA u : u \notin {kept[n] : n \in 1..Len(kept)})
         IN  IF Len(kept) < TargetSize
             THEN deterministic_top_k(rest, TargetSize - Len(kept)) \o kept
             ELSE kept
    ELSE deterministic_top_k(us, TargetSize)

\* a reconciliation that takes an absent file for a list that needs nothing
Reconcile_absentGivesNone(file, us) ==
    IF file.exists
    THEN LET kept == Kept(ReadEvalUrls(file.lines), us)
         IN  IF Len(kept) < TargetSize
             THEN kept \o deterministic_top_k(Remaining(us, kept), TargetSize - Len(kept))
             ELSE kept
    ELSE <<>>

\* a reconciliation that cuts a kept list longer than the target down to it
Reconcile_truncates(file, us) ==
    IF file.exists
    THEN LET kept == Kept(ReadEvalUrls(file.lines), us)
         IN  IF Len(kept) < TargetSize
             THEN kept \o deterministic_top_k(Remaining(us, kept), TargetSize - Len(kept))
             ELSE SubSeq(kept, 1, TargetSize)
    ELSE deterministic_top_k(us, TargetSize)

\* lines 79-90: the list saved_eval holds when the file is written back
Reconcile(file, us) ==
    IF file.exists
    THEN LET kept == Kept(ReadEvalUrls(file.lines), us)
         IN  IF Len(kept) < TargetSize
             THEN kept \o deterministic_top_k(Remaining(us, kept),
                                              TargetSize - Len(kept))
             ELSE kept
    ELSE deterministic_top_k(us, TargetSize)

\* the two branches of the split exchanged
split_of_swapped(url, es) == IF url \in es THEN "train" ELSE "eval"

\* lines 112-117: the split a URL is given
split_of(url, es) == IF url \in es THEN "eval" ELSE "train"

(***************************************************************************)
(* The inputs drawn: what data/urls.txt holds when a run starts, and what  *)
(* data/eval_urls.txt holds before the first run.                          *)
(***************************************************************************)
Fillers ==
    <<"b", "c", "d", "e", "f", "g", "h", "i", "j", "k", "l", "m", "n", X1, "o">>
Vary == {"a", "b", X2}

MaxTail == 1        \* lines of urls.txt after the filler lines
MaxDropped == 1     \* filler lines missing from the end of the filler block
MaxFailures == 1    \* fetches that fail in one run

\* the URLs whose fetch may raise: the first line, the last filler lines, a URL
\* that ends up in train, and the URLs that come and go
Flaky == {"b", "e", X1, "o", "a", X2}

RECURSIVE SeqsUpTo(_, _)
SeqsUpTo(S, n) ==
    IF n = 0 THEN {<<>>}
    ELSE LET shorter == SeqsUpTo(S, n - 1)
         IN  shorter \cup {Append(s, x) : s \in shorter, x \in S}

UrlFiles ==
    {<<CommentLine, Blank>> \o SubSeq(Fillers, 1, Len(Fillers) - d) \o t :
        d \in 0..MaxDropped, t \in SeqsUpTo(Vary, MaxTail)}
    \cup {<<CommentLine, Blank>>}

\* the urls.txt contents that list no URL twice
UrlFilesDistinct ==
    {ls \in UrlFiles :
        \A m, n \in 1..Len(ls) : (m # n /\ ls[m] \in Ids) => ls[m] # ls[n]}

InitialEvalFiles ==
    { NoFile,
      FileOf(<<>>),
      FileOf(<<Blank>>),
      FileOf(<<X2, "zzz", "a", "a">>),
      FileOf(Fillers \o <<"a">>) }

(***************************************************************************)
(* The __main__ script of data/data_cleaning.py, run again and again.      *)
(***************************************************************************)
MainInit ==
    /\ pc = "idle"
    /\ urls = <<>>
    /\ eval_urls_txt \in InitialEvalFiles
    /\ saved_eval = <<>>
    /\ eval_set = {}
    /\ idx = 0
    /\ failures = 0
    /\ all_f = <<>>
    /\ train_f = <<>>
    /\ eval_f = <<>>
    /\ events = <<>>
    /\ rel = "none"
    /\ track \in BOOLEAN
    /\ everLocked = {}
    /\ everEval = {}
    /\ everTrain = {}

\* lines 75-76: a run starts and loads data/urls.txt as it is now
StartRun(ls) ==
    /\ pc \in {"idle", "done"}
    /\ pc' = "loaded"
    /\ urls' = LoadUrls(ls)
    /\ saved_eval' = <<>>
    /\ eval_set' = {}
    /\ idx' = 0
    /\ failures' = 0
    /\ events' = <<>>
    /\ rel' = IF pc = "idle" THEN "first"
              ELSE IF LoadUrls(ls) = urls THEN "same"
              ELSE IF Range(urls) \subseteq Range(LoadUrls(ls)) THEN "superset"
              ELSE "other"
    /\ UNCHANGED <<eval_urls_txt, all_f, train_f, eval_f,
                   track, everLocked, everEval, everTrain>>

\* lines 79-90
ReconcileEval ==
    /\ pc = "loaded"
    /\ pc' = "reconciled"
    /\ saved_eval' = Reconcile(eval_urls_txt, urls)
    /\ events' = IF eval_urls_txt.exists THEN Append(events, "read locked")
                  ELSE events
    /\ UNCHANGED <<urls, eval_urls_txt, eval_set, idx, failures, all_f, train_f,
                   eval_f, rel, track,
                   everLocked, everEval, everTrain>>

\* lines 93-94
WriteBack ==
    /\ pc = "reconciled"
    /\ pc' = "written"
    /\ eval_urls_txt' = FileOf(WriteEvalUrls(saved_eval))
    /\ events' = Append(events, "write locked")
    /\ everLocked' = IF ~track THEN everLocked
                     ELSE everLocked \cup Range(saved_eval)
    /\ UNCHANGED <<urls, saved_eval, eval_set, idx, failures, all_f, train_f,
                   eval_f, rel, track, everEval, everTrain>>

\* outputs opened for appending: what earlier runs wrote stays
OpenOutputs_appends ==
    /\ pc = "written"
    /\ pc' = "loop"
    /\ eval_set' = Range(saved_eval)
    /\ events' = Append(events, "open outputs")
    /\ everEval' = IF ~track THEN everEval ELSE everEval \cup
           {u \in Range(urls) : split_of(u, Range(saved_eval)) = "eval"}
    /\ everTrain' = IF ~track THEN everTrain ELSE everTrain \cup
           {u \in Range(urls) : split_of(u, Range(saved_eval)) = "train"}
    /\ UNCHANGED <<urls, eval_urls_txt, saved_eval, idx, failures, rel, track,
                   everLocked, all_f, train_f, eval_f>>

\* lines 96-101: eval_set, and the three outputs opened with mode "w"
OpenOutputs ==
    /\ pc = "written"
    /\ pc' = "loop"
    /\ eval_set' = Range(saved_eval)
    /\ all_f' = <<>>
    /\ train_f' = <<>>
    /\ eval_f' = <<>>
    /\ events' = Append(events, "open outputs")
    /\ everEval' = IF ~track THEN everEval ELSE everEval \cup
           {u \in Range(urls) : split_of(u, Range(saved_eval)) = "eval"}
    /\ everTrain' = IF ~track THEN everTrain ELSE everTrain \cup
           {u \in Range(urls) : split_of(u, Range(saved_eval)) = "train"}
    /\ UNCHANGED <<urls, eval_urls_txt, saved_eval, idx, failures, rel, track,
                   everLocked>>

\* an iteration that also writes the locked list again
ProcessUrl_rewritesLocked ==
    /\ pc = "loop"
    /\ idx < Len(urls)
    /\ LET url == urls[idx + 1]
       IN  /\ all_f' = Append(all_f, url)
           /\ IF split_of(url, eval_set) = "eval"
              THEN eval_f' = Append(eval_f, url) /\ train_f' = train_f
              ELSE train_f' = Append(train_f, url) /\ eval_f' = eval_f
    /\ idx' = idx + 1
    /\ eval_urls_txt' = FileOf(WriteEvalUrls(saved_eval))
    /\ events' = events \o <<"write record", "write locked">>
    /\ UNCHANGED <<pc, urls, saved_eval, eval_set, failures, rel,
                   track, everLocked, everEval, everTrain>>

\* lines 103-119: one iteration whose fetch_and_clean returns
ProcessUrl ==
    /\ pc = "loop"
    /\ idx < Len(urls)
    /\ LET url == urls[idx + 1]
       IN  /\ all_f' = Append(all_f, url)
           /\ IF split_of(url, eval_set) = "eval"
              THEN eval_f' = Append(eval_f, url) /\ train_f' = train_f
              ELSE train_f' = Append(train_f, url) /\ eval_f' = eval_f
    /\ idx' = idx + 1
    /\ events' = Append(events, "write record")
    /\ UNCHANGED <<pc, urls, eval_urls_txt, saved_eval, eval_set, failures, rel,
                   track, everLocked, everEval, everTrain>>

\* a failed fetch that ends the run
FetchFails_aborts ==
    /\ pc = "loop"
    /\ idx < Len(urls)
    /\ urls[idx + 1] \in Flaky
    /\ failures < MaxFailures
    /\ failures' = failures + 1
    /\ idx' = idx + 1
    /\ pc' = "done"
    /\ events' = Append(events, "fetch failed")
    /\ UNCHANGED <<urls, eval_urls_txt, saved_eval, eval_set, all_f,
                   train_f, eval_f, rel, track,
                   everLocked, everEval, everTrain>>

\* lines 104-105, 120-121: one iteration whose fetch_and_clean raises
FetchFails ==
    /\ pc = "loop"
    /\ idx < Len(urls)
    /\ urls[idx + 1] \in Flaky
    /\ failures < MaxFailures
    /\ failures' = failures + 1
    /\ idx' = idx + 1
    /\ events' = Append(events, "fetch failed")
    /\ UNCHANGED <<pc, urls, eval_urls_txt, saved_eval, eval_set, all_f,
                   train_f, eval_f, rel, track,
                   everLocked, everEval, everTrain>>

\* the loop is exhausted, the outputs are closed and the script ends
Finish ==
    /\ pc = "loop"
    /\ idx = Len(urls)
    /\ pc' = "done"
    /\ UNCHANGED <<urls, eval_urls_txt, saved_eval, eval_set, idx, failures,
                   all_f, train_f, eval_f, events, rel, track,
                   everLocked, everEval, everTrain>>

(***************************************************************************)
(* deterministic_top_k called on drawn lists.                              *)
(***************************************************************************)
MaxLen == 3         \* length of the list passed to deterministic_top_k
MaxK == 4           \* largest k passed
MaxNegK == 1        \* smallest k passed is -MaxNegK

TkIds == {"a", "b", X1, X2}

TkIdle ==
    /\ tk_pc = "off"
    /\ tk_urls = <<>>
    /\ tk_perm = <<>>
    /\ tk_k = 0
    /\ tk_out = <<>>
    /\ tk_out_perm = <<>>

TkInit ==
    /\ tk_pc = "drawn"
    /\ tk_urls \in SeqsUpTo(TkIds, MaxLen)
    /\ tk_perm = <<>>
    /\ tk_k \in (0 - MaxNegK)..MaxK
    /\ tk_out = <<>>
    /\ tk_out_perm = <<>>

\* s and t hold the same entries the same number of times
Count(x, s) == Cardinality({n \in 1..Len(s) : s[n] = x})
IsPermutation(s, t) ==
    /\ Len(s) = Len(t)
    /\ \A x \in Range(s) \cup Range(t) : Count(x, s) = Count(x, t)

\* deterministic_top_k(tk_urls, tk_k)
TkCall ==
    /\ tk_pc = "drawn"
    /\ tk_pc' = "called"
    /\ tk_out' = deterministic_top_k(tk_urls, tk_k)
    /\ UNCHANGED <<tk_urls, tk_perm, tk_k, tk_out_perm>>

\* the same call with the list in another order
TkCallPermuted(p) ==
    /\ tk_pc = "called"
    /\ IsPermutation(tk_urls, p)
    /\ tk_pc' = "both"
    /\ tk_perm' = p
    /\ tk_out_perm' = deterministic_top_k(p, tk_k)
    /\ UNCHANGED <<tk_urls, tk_k, tk_out>>

(***************************************************************************)
(* assign_split of scripts/data_cleaning.py, and the script's __main__.    *)
(***************************************************************************)
Modulus == 1000

\* int(h, 16) % 1000: the digest read as a number in base 16, most significant
\* digit first.  The remainder is taken digit by digit, (a * 16 + d) % 1000
\* being the remainder of the number read so far; the 128-bit number itself is
\* beyond the integers TLC computes with.
RECURSIVE IntHex16ModFrom(_, _, _)
IntHex16ModFrom(h, n, acc) ==
    IF n > Len(h) THEN acc
    ELSE IntHex16ModFrom(h, n + 1, (acc * 16 + h[n]) % Modulus)

IntHex16Mod(h) == IntHex16ModFrom(h, 1, 0)

\* A float as the fraction it stands for, den > 0.  x / 1000.0 and the
\* comparison of line 62 are exact on the values here: two distinct fractions
\* with denominators of at most four digits are never rounded to one double.
Frac(n, d) == [num |-> n, den |-> d]
FracLess(x, y) == x.num * y.den < y.num * x.den

\* line 61: val
val_of(url) == Frac(IntHex16Mod(hexdigest(url)), Modulus)

\* a split by the position of the URL in the list: the first part is train
assign_split_byPosition(url, train_ratio) ==
    IF FracLess(Frac(idx, Len(urls)), train_ratio) THEN "train" ELSE "eval"

\* a split that sends the values above train_ratio to train
assign_split_aboveRatio(url, train_ratio) ==
    IF FracLess(train_ratio, val_of(url)) THEN "train" ELSE "eval"

\* a split that also sends val = train_ratio to train
assign_split_inclusive(url, train_ratio) ==
    IF ~FracLess(train_ratio, val_of(url)) THEN "train" ELSE "eval"

\* lines 58-62
assign_split(url, train_ratio) ==
    IF FracLess(val_of(url), train_ratio) THEN "train" ELSE "eval"

\* line 90: train_ratio=0.8
TrainRatio == Frac(8, 10)

RatioInit ==
    /\ pc = "ratio_idle"
    /\ urls = <<>>
    /\ eval_urls_txt = NoFile
    /\ saved_eval = <<>>
    /\ eval_set = {}
    /\ idx = 0
    /\ failures = 0
    /\ all_f = <<>>
    /\ train_f = <<>>
    /\ eval_f = <<>>
    /\ events = <<>>
    /\ rel = "none"
    /\ track \in BOOLEAN
    /\ everLocked = {}
    /\ everEval = {}
    /\ everTrain = {}

\* lines 73-74: a run starts and loads data/urls.txt as it is now
RatioStartRun(ls) ==
    /\ pc \in {"ratio_idle", "ratio_done"}
    /\ pc' = "ratio_loaded"
    /\ urls' = LoadUrls(ls)
    /\ idx' = 0
    /\ failures' = 0
    /\ events' = <<>>
    /\ UNCHANGED <<eval_urls_txt, saved_eval, eval_set, all_f, train_f, eval_f,
                   rel, track, everLocked, everEval, everTrain>>

\* lines 77-79: the three outputs opened with mode "w"
RatioOpenOutputs ==
    /\ pc = "ratio_loaded"
    /\ pc' = "ratio_loop"
    /\ all_f' = <<>>
    /\ train_f' = <<>>
    /\ eval_f' = <<>>
    /\ events' = Append(events, "open outputs")
    /\ UNCHANGED <<urls, eval_urls_txt, saved_eval, eval_set, idx, failures,
                   rel, track, everLocked, everEval, everTrain>>

\* an iteration that writes the record to the train output as well as to the
\* output of its split
RatioProcessUrl_alsoTrain ==
    /\ pc = "ratio_loop"
    /\ idx < Len(urls)
    /\ LET url == urls[idx + 1]
           split == assign_split(url, TrainRatio)
       IN  /\ all_f' = Append(all_f, url)
           /\ train_f' = Append(train_f, url)
           /\ eval_f' = IF split = "train" THEN eval_f ELSE Append(eval_f, url)
           /\ everTrain' = IF track /\ split = "train"
                           THEN everTrain \cup {url} ELSE everTrain
           /\ everEval' = IF track /\ split = "eval"
                          THEN everEval \cup {url} ELSE everEval
    /\ idx' = idx + 1
    /\ events' = Append(events, "write record")
    /\ UNCHANGED <<pc, urls, eval_urls_txt, saved_eval, eval_set, failures, rel,
                   track, everLocked>>

\* lines 81-96: one iteration whose fetch_and_clean returns
RatioProcessUrl ==
    /\ pc = "ratio_loop"
    /\ idx < Len(urls)
    /\ LET url == urls[idx + 1]
           split == assign_split(url, TrainRatio)
       IN  /\ all_f' = Append(all_f, url)
           /\ IF split = "train"
              THEN train_f' = Append(train_f, url) /\ eval_f' = eval_f
              ELSE eval_f' = Append(eval_f, url) /\ train_f' = train_f
           /\ everTrain' = IF track /\ split = "train"
                           THEN everTrain \cup {url} ELSE everTrain
           /\ everEval' = IF track /\ split = "eval"
                          THEN everEval \cup {url} ELSE everEval
    /\ idx' = idx + 1
    /\ events' = Append(events, "write record")
    /\ UNCHANGED <<pc, urls, eval_urls_txt, saved_eval, eval_set, failures, rel,
                   track, everLocked>>

\* lines 82-83, 97-98: one iteration whose fetch_and_clean raises
RatioFetchFails ==
    /\ pc = "ratio_loop"
    /\ idx < Len(urls)
    /\ urls[idx + 1] \in Flaky
    /\ failures < MaxFailures
    /\ failures' = failures + 1
    /\ idx' = idx + 1
    /\ events' = Append(events, "fetch failed")
    /\ UNCHANGED <<pc, urls, eval_urls_txt, saved_eval, eval_set, all_f,
                   train_f, eval_f, rel, track,
                   everLocked, everEval, everTrain>>

\* the loop is exhausted, the outputs are closed and the script ends
RatioFinish ==
    /\ pc = "ratio_loop"
    /\ idx = Len(urls)
    /\ pc' = "ratio_done"
    /\ UNCHANGED <<urls, eval_urls_txt, saved_eval, eval_set, idx, failures,
                   all_f, train_f, eval_f, events, rel, track,
                   everLocked, everEval, everTrain>>

(***************************************************************************)
(* assign_split called on drawn inputs.                                    *)
(***************************************************************************)
\* the ratios passed: the script's 0.8, the ends of [0, 1], values that some
\* identifier's val is equal to, and values outside [0, 1]
Ratios ==
    { Frac(8, 10), Frac(0, 1), Frac(1, 1), Frac(1, 2), Frac(497, 1000),
      Frac(53, 1000), Frac(0 - 1, 10), Frac(3, 2) }

AsIdle ==
    /\ as_pc = "off"
    /\ as_url = ""
    /\ as_ratio = Frac(0, 1)
    /\ as_val = Frac(0, 1)
    /\ as_out = ""
    /\ as_ratio2 = Frac(0, 1)
    /\ as_out2 = ""

AsInit ==
    /\ as_pc = "drawn"
    /\ as_url \in Ids
    /\ as_ratio \in Ratios
    /\ as_val = Frac(0, 1)
    /\ as_out = ""
    /\ as_ratio2 = Frac(0, 1)
    /\ as_out2 = ""

\* assign_split(as_url, as_ratio)
AsCall ==
    /\ as_pc = "drawn"
    /\ as_pc' = "called"
    /\ as_val' = val_of(as_url)
    /\ as_out' = assign_split(as_url, as_ratio)
    /\ UNCHANGED <<as_url, as_ratio, as_ratio2, as_out2>>

\* assign_split(as_url, r) for another ratio
AsCallOther(r) ==
    /\ as_pc = "called"
    /\ as_pc' = "both"
    /\ as_ratio2' = r
    /\ as_out2' = assign_split(as_url, r)
    /\ UNCHANGED <<as_url, as_ratio, as_val, as_out>>

(***************************************************************************)
(* main() of main_exploratory.py: the API keys are checked, train.jsonl is *)
(* loaded, up to three records are saved as files and model_run.py is run  *)
(* for every saved file and model.                                         *)
(***************************************************************************)
SampleSize == 3
MaxRecords == 4         \* records in train.jsonl
MaxFailedRuns == 1      \* runs of model_run.py that do not exit with 0

\* the variables the docstring names (line 26)
EnvKeys ==
    {"OPENAI_API_KEY", "ANTHROPIC_API_KEY", "GEMINI_API_KEY", "GROQ_API_KEY"}

\* os.getenv(key): None for a variable that is not set, or its string value
Unset == "None"
Getenv == {Unset, "", "sk-key"}

\* lines 188-192, in the order of the dict
api_keys == <<"OPENAI_API_KEY", "ANTHROPIC_API_KEY", "GEMINI_API_KEY">>

\* lines 198-203
ModelOfKey ==
    ("OPENAI_API_KEY" :> "gpt-5")
    @@ ("ANTHROPIC_API_KEY" :> "claude-sonnet-4-20250514")
    @@ ("GEMINI_API_KEY" :> "gemini-2.5-pro")

\* "if value:" (line 196): None and the empty string are false
Truthy(value) == value # Unset /\ value # ""

\* lines 194-205
available_models(env) ==
    LET found == SelectSeq(api_keys, LAMBDA key : Truthy(env[key]))
    IN  [n \in 1..Len(found) |-> ModelOfKey[found[n]]]

\* line 220
requested_models == <<"gpt-5", "claude-sonnet-4-20250514", "gemini-2.5-pro">>

\* line 221
ModelsOf(env) ==
    SelectSeq(requested_models, LAMBDA model : model \in Range(available_models(env)))

\* ../data/train.jsonl: absent, or a file with so many lines of valid JSON
AbsentFile == [exists |-> FALSE, count |-> 0]
TrainFile(n) == [exists |-> TRUE, count |-> n]

\* what run_model_on_file meets: the return code of model_run.py, the timeout
\* of subprocess.run, or another exception
Outcomes == {"exit 0", "exit 1", "timeout", "exception"}

\* the calls so far that returned None
FailedRuns == Cardinality({n \in 1..Len(attempts) : attempts[n][3] # "exit 0"})

MeIdle ==
    /\ me_pc = "off"
    /\ environ = [key \in EnvKeys |-> Unset]
    /\ train_jsonl = AbsentFile
    /\ records = 0
    /\ models = <<>>
    /\ saved_files = <<>>
    /\ record_index = 0
    /\ model_index = 0
    /\ attempts = <<>>
    /\ successful_runs = 0
    /\ total_runs = 0

MeInit ==
    /\ me_pc = "start"
    /\ environ \in [EnvKeys -> Getenv]
    /\ train_jsonl \in {AbsentFile} \cup {TrainFile(n) : n \in 0..MaxRecords}
    /\ records = 0
    /\ models = <<>>
    /\ saved_files = <<>>
    /\ record_index = 0
    /\ model_index = 0
    /\ attempts = <<>>
    /\ successful_runs = 0
    /\ total_runs = 0

\* lines 186-231: sys.exit(1) when no model is available
MeCheckKeys ==
    /\ me_pc = "start"
    /\ models' = ModelsOf(environ)
    /\ me_pc' = IF available_models(environ) = <<>> \/ ModelsOf(environ) = <<>>
                THEN "exit 1" ELSE "keys checked"
    /\ UNCHANGED <<environ, train_jsonl, records, saved_files, record_index,
                   model_index, attempts, successful_runs, total_runs>>

\* lines 233-242: sys.exit(1) when train.jsonl is absent or holds no record
MeLoadTrainData ==
    /\ me_pc = "keys checked"
    /\ IF ~train_jsonl.exists
       THEN me_pc' = "exit 1" /\ records' = records
       ELSE /\ records' = train_jsonl.count
            /\ me_pc' = IF train_jsonl.count = 0 THEN "exit 1" ELSE "loaded"
    /\ UNCHANGED <<environ, train_jsonl, models, saved_files, record_index,
                   model_index, attempts, successful_runs, total_runs>>

\* lines 244-261: select_random_subset(records, n=3), save_selected_records,
\* and the counters set before the loops
MeSaveSelected ==
    /\ me_pc = "loaded"
    /\ me_pc' = "running"
    /\ LET n == IF records < SampleSize THEN records ELSE SampleSize
       IN  /\ saved_files' = [i \in 1..n |-> i]
           /\ total_runs' = Len(models) * n
    /\ successful_runs' = 0
    /\ record_index' = 1
    /\ model_index' = 1
    /\ UNCHANGED <<environ, train_jsonl, records, models, attempts>>

\* a run that stops at the first call that returns None
MeRunModel_stopsOnFailure(outcome) ==
    /\ me_pc = "running"
    /\ record_index <= Len(saved_files)
    /\ outcome # "exit 0" => FailedRuns < MaxFailedRuns
    /\ attempts' = Append(attempts,
                          <<saved_files[record_index], models[model_index], outcome>>)
    /\ successful_runs' = IF outcome = "exit 0" THEN successful_runs + 1
                          ELSE successful_runs
    /\ IF outcome # "exit 0"
       THEN record_index' = Len(saved_files) + 1 /\ model_index' = 1
       ELSE IF model_index < Len(models)
       THEN model_index' = model_index + 1 /\ record_index' = record_index
       ELSE model_index' = 1 /\ record_index' = record_index + 1
    /\ UNCHANGED <<me_pc, environ, train_jsonl, records, models, saved_files,
                   total_runs>>

\* lines 261-268 and 134-177: one call of run_model_on_file
MeRunModel(outcome) ==
    /\ me_pc = "running"
    /\ record_index <= Len(saved_files)
    /\ outcome # "exit 0" => FailedRuns < MaxFailedRuns
    /\ attempts' = Append(attempts,
                          <<saved_files[record_index], models[model_index], outcome>>)
    /\ successful_runs' = IF outcome = "exit 0" THEN successful_runs + 1
                          ELSE successful_runs
    /\ IF model_index < Len(models)
       THEN model_index' = model_index + 1 /\ record_index' = record_index
       ELSE model_index' = 1 /\ record_index' = record_index + 1
    /\ UNCHANGED <<me_pc, environ, train_jsonl, records, models, saved_files,
                   total_runs>>

\* lines 270-285: the loops are exhausted and the summary is printed
MeSummary ==
    /\ me_pc = "running"
    /\ record_index > Len(saved_files)
    /\ me_pc' = "finished"
    /\ UNCHANGED <<environ, train_jsonl, records, models, saved_files,
                   record_index, model_index, attempts, successful_runs,
                   total_runs>>

\* the build with fetches that may fail, histories not recorded
Init == MainInit /\ ~track /\ TkIdle /\ AsIdle /\ MeIdle

Next ==
    \/ (\E ls \in UrlFiles : StartRun(ls)) /\ UNCHANGED call_vars
    \/ ReconcileEval /\ UNCHANGED call_vars
    \/ WriteBack /\ UNCHANGED call_vars
    \/ OpenOutputs /\ UNCHANGED call_vars
    \/ ProcessUrl /\ UNCHANGED call_vars
    \/ FetchFails /\ UNCHANGED call_vars
    \/ Finish /\ UNCHANGED call_vars

Spec == Init /\ [][Next]_vars

\* runs in which every fetch succeeds
NextRuns ==
    \/ (\E ls \in UrlFiles : StartRun(ls)) /\ UNCHANGED call_vars
    \/ ReconcileEval /\ UNCHANGED call_vars
    \/ WriteBack /\ UNCHANGED call_vars
    \/ OpenOutputs /\ UNCHANGED call_vars
    \/ ProcessUrl /\ UNCHANGED call_vars
    \/ Finish /\ UNCHANGED call_vars

SpecRuns == Init /\ [][NextRuns]_vars

\* runs from an absent locked file on universes that list no URL twice, with
\* the histories recorded
InitHistory ==
    MainInit /\ track /\ eval_urls_txt = NoFile /\ TkIdle /\ AsIdle /\ MeIdle

NextHistory ==
    \/ (\E ls \in UrlFilesDistinct : StartRun(ls)) /\ UNCHANGED call_vars
    \/ ReconcileEval /\ UNCHANGED call_vars
    \/ WriteBack /\ UNCHANGED call_vars
    \/ OpenOutputs /\ UNCHANGED call_vars
    \/ ProcessUrl /\ UNCHANGED call_vars
    \/ Finish /\ UNCHANGED call_vars

SpecHistory == InitHistory /\ [][NextHistory]_vars

MainIdle ==
    /\ MainInit
    /\ ~track
    /\ eval_urls_txt = NoFile

InitTopK == MainIdle /\ TkInit /\ AsIdle /\ MeIdle

NextTopK ==
    \/ TkCall /\ UNCHANGED <<main_vars, as_vars, me_vars>>
    \/ (\E p \in SeqsUpTo(TkIds, MaxLen) : TkCallPermuted(p))
           /\ UNCHANGED <<main_vars, as_vars, me_vars>>

SpecTopK == InitTopK /\ [][NextTopK]_vars

\* assign_split alone
InitAssign == MainIdle /\ TkIdle /\ AsInit /\ MeIdle

NextAssign ==
    \/ AsCall /\ UNCHANGED <<main_vars, tk_vars, me_vars>>
    \/ (\E r \in Ratios : AsCallOther(r)) /\ UNCHANGED <<main_vars, tk_vars, me_vars>>

SpecAssign == InitAssign /\ [][NextAssign]_vars

\* main_exploratory.py alone
InitExploratory == MainIdle /\ TkIdle /\ AsIdle /\ MeInit

NextExploratory ==
    \/ MeCheckKeys /\ UNCHANGED <<main_vars, tk_vars, as_vars>>
    \/ MeLoadTrainData /\ UNCHANGED <<main_vars, tk_vars, as_vars>>
    \/ MeSaveSelected /\ UNCHANGED <<main_vars, tk_vars, as_vars>>
    \/ (\E outcome \in Outcomes : MeRunModel(outcome))
           /\ UNCHANGED <<main_vars, tk_vars, as_vars>>
    \/ MeSummary /\ UNCHANGED <<main_vars, tk_vars, as_vars>>

SpecExploratory == InitExploratory /\ [][NextExploratory]_vars

\* the ratio build run again and again, with the histories recorded
InitRatio == RatioInit /\ track /\ TkIdle /\ AsIdle /\ MeIdle

NextRatio ==
    \/ (\E ls \in UrlFiles : RatioStartRun(ls)) /\ UNCHANGED call_vars
    \/ RatioOpenOutputs /\ UNCHANGED call_vars
    \/ RatioProcessUrl /\ UNCHANGED call_vars
    \/ RatioFetchFails /\ UNCHANGED call_vars
    \/ RatioFinish /\ UNCHANGED call_vars

SpecRatio == InitRatio /\ [][NextRatio]_vars

\* either build, run again and again
InitBuilds == Init \/ (RatioInit /\ ~track /\ TkIdle /\ AsIdle /\ MeIdle)

NextBuilds == Next \/ NextRatio

SpecBuilds == InitBuilds /\ [][NextBuilds]_vars

(***************************************************************************)
(* Properties of the locked top-k build.                                   *)
(***************************************************************************)
IsPrefix(p, s) == Len(p) <= Len(s) /\ SubSeq(s, 1, Len(p)) = p

NoRepeat(s) == \A m, n \in 1..Len(s) : m # n => s[m] # s[n]

Min(x, y) == IF x < y THEN x ELSE y
Max(x, y) == IF x < y THEN y ELSE x

\* the identifiers listed in data/eval_urls.txt as it is on disk
OnDisk == SelectSeq(eval_urls_txt.lines, LAMBDA ln : ln # Blank)

\* the entries on disk that are in this run's universe, in their order
StillPresent == SelectSeq(OnDisk, LAMBDA u : \E n \in 1..Len(urls) : urls[n] = u)

\* the universe lines that are not on disk
NotOnDisk == SelectSeq(urls, LAMBDA u : \A n \in 1..Len(OnDisk) : OnDisk[n] # u)

\* C1 as claimed: an identifier that was ever written to the locked list is
\* labelled eval in every later run whose universe contains it.
C1_OnceLockedAlwaysEval ==
    pc \in {"loop", "done"} =>
        \A u \in everLocked \cap Range(urls) : split_of(u, eval_set) = "eval"

\* C1 amended: an identifier that is in the locked list on disk when a run
\* starts and is in that run's universe is labelled eval by that run; so it
\* stays eval for as long as no run's universe lacks it.
C1_LockedAndPresentStaysEval ==
    pc = "reconciled" =>
        \A u \in Range(OnDisk) \cap Range(urls) :
            split_of(u, Range(saved_eval)) = "eval"

\* a run after another has kept a locked identifier, lost one that left the
\* universe, and topped the list up
C1_Witness ==
    /\ pc = "reconciled"
    /\ rel = "other"
    /\ Range(OnDisk) \cap Range(urls) # {}
    /\ Range(OnDisk) \ Range(urls) # {}
    /\ Len(saved_eval) > Len(StillPresent)

\* C2: the kept list is a prefix of the reconciled list, and when the universe
\* is a superset of the previous run's, the whole previous list is a prefix.
C2_KeptIsPrefix ==
    pc = "reconciled" =>
        /\ IsPrefix(StillPresent, saved_eval)
        /\ rel \in {"same", "superset"} => IsPrefix(OnDisk, saved_eval)

\* a grown universe: the previous list is kept whole and topped up
C2_Witness ==
    /\ pc = "reconciled"
    /\ rel = "superset"
    /\ OnDisk # <<>>
    /\ Len(saved_eval) > Len(OnDisk)

\* C3: every identifier of the universe has exactly one label, the identifiers
\* labelled eval are exactly the reconciled locked list, train is the rest of
\* the universe, and each record written went to the output of its label.
C3_PartitionComplete ==
    pc \in {"loop", "done"} =>
        LET E == Range(saved_eval)
            U == Range(urls)
            evalLabelled  == {u \in U : split_of(u, eval_set) = "eval"}
            trainLabelled == {u \in U : split_of(u, eval_set) = "train"}
        IN  /\ evalLabelled \cup trainLabelled = U
            /\ evalLabelled \cap trainLabelled = {}
            /\ evalLabelled = E
            /\ trainLabelled = U \ E
            /\ Range(eval_f) \subseteq evalLabelled
            /\ Range(train_f) \subseteq trainLabelled

\* a finished run with both labels given and one fetch failed
C3_Witness ==
    /\ pc = "done"
    /\ train_f # <<>>
    /\ eval_f # <<>>
    /\ failures = 1
    /\ rel = "other"

\* C4 as claimed: the reconciled list has exactly min(15, |U|) entries; stated
\* here for the universes and locked files that repeat no identifier.
C4_SizeIsMin ==
    (pc = "reconciled" /\ NoRepeat(urls) /\ NoRepeat(OnDisk)) =>
        Len(saved_eval) = Min(TargetSize, Cardinality(Range(urls)))

\* C4 amended: a kept list of 15 entries or more is returned as it is, however
\* long; a shorter one is topped up to min(15, kept + remaining lines); with no
\* locked file the list has min(15, lines of the universe) entries.  When no
\* identifier is repeated and at most 15 are kept that is min(15, |U|).
C4_SizeOfReconciled ==
    pc = "reconciled" =>
        /\ Len(saved_eval) =
              IF ~eval_urls_txt.exists THEN Min(TargetSize, Len(urls))
              ELSE Max(Len(StillPresent),
                       Min(TargetSize, Len(StillPresent) + Len(NotOnDisk)))
        /\ (NoRepeat(urls) /\ NoRepeat(StillPresent)
                /\ Len(StillPresent) <= TargetSize)
             => Len(saved_eval) = Min(TargetSize, Cardinality(Range(urls)))

\* a short kept list topped up to 15 from a larger remainder
C4_Witness ==
    /\ pc = "reconciled"
    /\ Len(StillPresent) > 0
    /\ Len(StillPresent) < TargetSize
    /\ Len(StillPresent) + Len(NotOnDisk) > TargetSize
    /\ Len(saved_eval) = TargetSize

\* C5: once a run has written the locked list, every identifier in the file is
\* a member of that run's universe.
C5_LockedWithinUniverse ==
    pc \in {"written", "loop", "done"} => Range(OnDisk) \subseteq Range(urls)

\* a run on a universe that lost identifiers has written a full list
C5_Witness ==
    /\ pc = "written"
    /\ rel = "other"
    /\ Len(OnDisk) = TargetSize
    /\ "a" \notin Range(urls)

\* C6: a run on the universe of the run before it reconciles to exactly the
\* list that run wrote, and writes the file back unchanged.
C6_RerunIdempotent ==
    (pc = "reconciled" /\ rel = "same") =>
        /\ saved_eval = OnDisk
        /\ WriteEvalUrls(saved_eval) = eval_urls_txt.lines

\* a rerun on an unchanged universe larger than the locked list
C6_Witness ==
    /\ pc = "reconciled"
    /\ rel = "same"
    /\ Len(saved_eval) = TargetSize
    /\ Cardinality(Range(urls)) > TargetSize

\* C7 as claimed: an identifier gets the same label in every run whose
\* universe contains it.
C7_LabelOfIdentifierAlone ==
    \A u \in Ids : ~(u \in everEval /\ u \in everTrain)

\* C7 amended: the label depends on the universe and on the locked list as
\* well; a run on the universe of the run before it gives every identifier the
\* label that run gave it.
C7_RerunKeepsLabels ==
    (pc = "reconciled" /\ rel = "same") =>
        \A u \in Range(urls) :
            split_of(u, Range(saved_eval)) = split_of(u, Range(OnDisk))

\* a rerun on an unchanged universe in which both labels are given
C7_Witness ==
    /\ pc = "reconciled"
    /\ rel = "same"
    /\ \E u, v \in Range(urls) :
          /\ split_of(u, Range(saved_eval)) = "eval"
          /\ split_of(v, Range(saved_eval)) = "train"

(***************************************************************************)
(* Properties of deterministic_top_k.                                      *)
(***************************************************************************)
\* C8: for a set of distinct identifiers and k >= 0, deterministic_top_k
\* returns the same sequence whatever the order in which they are passed in.
C8_OrderOfInputIrrelevant ==
    (tk_pc = "both" /\ tk_k >= 0 /\ NoRepeat(tk_urls)) => tk_out_perm = tk_out

\* C9: for k >= 0 the result has min(k, entries of the list) entries, and all
\* the entries of the list when k is not smaller than their number.
C9_LengthIsMin ==
    (tk_pc \in {"called", "both"} /\ tk_k >= 0) =>
        /\ Len(tk_out) = Min(tk_k, Len(tk_urls))
        /\ tk_k >= Len(tk_urls) => IsPermutation(tk_urls, tk_out)

\* a call that cuts a list of three distinct identifiers down to two
C9_Witness ==
    /\ tk_pc = "called"
    /\ tk_k = 2
    /\ Len(tk_urls) = 3
    /\ NoRepeat(tk_urls)
    /\ Len(tk_out) = 2

\* C10: every element of the result is an element of the list passed in,
\* whatever k is.
C10_ResultWithinInput ==
    /\ tk_pc \in {"called", "both"} => Range(tk_out) \subseteq Range(tk_urls)
    /\ tk_pc = "both" => Range(tk_out_perm) \subseteq Range(tk_perm)

\* a call that returned some of the identifiers passed in and left one out
C10_Witness ==
    /\ tk_pc = "called"
    /\ tk_out # <<>>
    /\ Range(tk_out) # Range(tk_urls)

\* C11: the result of deterministic_top_k is in ascending order of MD5 hex
\* digest (no entry's digest is smaller than that of the entry before it) and
\* no identifier of the list that is left out of the result has a digest
\* smaller than the digest of an identifier in the result.
C11_AscendingAndSmallest ==
    tk_pc \in {"called", "both"} =>
        /\ \A n \in 1..(Len(tk_out) - 1) :
              ~HexLess(hexdigest(tk_out[n + 1]), hexdigest(tk_out[n]))
        /\ \A u \in Range(tk_urls) \ Range(tk_out) : \A v \in Range(tk_out) :
              ~HexLess(hexdigest(u), hexdigest(v))

\* a call on three identifiers passed in descending digest order that returns
\* the two smallest and leaves the largest out
C11_Witness ==
    /\ tk_pc = "called"
    /\ tk_urls = <<X1, "b", "a">>
    /\ tk_k = 2
    /\ tk_out = <<"a", "b">>

\* The identifiers passed to deterministic_top_k in ascending lexicographic
\* (code point) order of the strings: upper-case letters come before
\* lower-case ones, and X1 and X2 first differ where X1 has "A" and X2 has "E".
IdsAscending == <<X1, X2, "a", "b">>
IdRank(u) == CHOOSE n \in 1..Len(IdsAscending) : IdsAscending[n] = u
IdLess(u, v) == IdRank(u) < IdRank(v)

\* C12: two distinct identifiers with equal digests that are next to each
\* other in the result of deterministic_top_k are in the lexicographic order
\* of the identifiers themselves.
C12_TiesByIdentifierOrder ==
    tk_pc \in {"called", "both"} =>
        \A n \in 1..(Len(tk_out) - 1) :
            (/\ tk_out[n] # tk_out[n + 1]
             /\ hexdigest(tk_out[n]) = hexdigest(tk_out[n + 1]))
            => IdLess(tk_out[n], tk_out[n + 1])

(***************************************************************************)
(* Further properties of the locked top-k build.                           *)
(***************************************************************************)
\* C13: when the locked file exists, the reconciled list is the reference
\* function of the file and the universe: with kept the entries on disk that
\* are in the universe, it is kept itself, whole, when kept has 15 entries or
\* more, and otherwise kept followed by deterministic_top_k of the universe
\* lines not in kept, asked for 15 - len(kept) of them, in the order returned.
C13_ReconcileIsReference ==
    (pc = "reconciled" /\ eval_urls_txt.exists) =>
        IF Len(StillPresent) >= TargetSize
        THEN saved_eval = StillPresent
        ELSE saved_eval = StillPresent \o
                 deterministic_top_k(NotOnDisk, TargetSize - Len(StillPresent))

\* a previous list of 14 entries, all kept, in a universe of 16: the list is
\* followed by exactly one of the two remaining identifiers
C13_Witness ==
    /\ pc = "reconciled"
    /\ eval_urls_txt.exists
    /\ Len(OnDisk) = 14
    /\ StillPresent = OnDisk
    /\ Len(urls) = 16
    /\ NoRepeat(urls)
    /\ Len(saved_eval) = 15
    /\ IsPrefix(OnDisk, saved_eval)
    /\ saved_eval[15] \in Range(NotOnDisk)

\* C16: a run that finds no locked file, like a run that finds one with no
\* line or with no identifier in it, goes on to a reconciled list that is
\* deterministic_top_k(universe, 15).
C16_AbsentAsEmpty ==
    (pc = "reconciled" /\ OnDisk = <<>>) =>
        saved_eval = deterministic_top_k(urls, TargetSize)

\* a run without a locked file on a universe of 16 that selected 15 of them
C16_Witness ==
    /\ pc = "reconciled"
    /\ ~eval_urls_txt.exists
    /\ Len(urls) = 16
    /\ Len(saved_eval) = TargetSize
    /\ Range(saved_eval) # Range(urls)

\* the positions of an operation in this run's sequence of file operations
EventsAt(kinds) == {n \in 1..Len(events) : events[n] \in kinds}

\* C17: in every run of the locked top-k build the locked file is read, if
\* it is there, before anything else and once; the reconciled list is written
\* exactly once, after the read; the outputs are opened and records are
\* written only after that write; and the locked file is not written once the
\* outputs are open, in the loop or after it.
C17_ReadWriteOnceThenRecords ==
    LET reads   == EventsAt({"read locked"})
        writes  == EventsAt({"write locked"})
        outputs == EventsAt({"open outputs", "write record"})
    IN  /\ reads \subseteq {1}
        /\ pc = "reconciled" => (reads # {} <=> eval_urls_txt.exists)
        /\ Cardinality(writes) <= 1
        /\ pc \in {"written", "loop", "done"} => Cardinality(writes) = 1
        /\ pc \in {"written", "loop", "done"} => OnDisk = saved_eval
        /\ \A r \in reads : \A w \in writes : r < w
        /\ \A o \in outputs : \E w \in writes : w < o
        /\ \A w \in writes : \A o \in outputs : w < o
        /\ pc \in {"idle", "loaded"} => events = <<>>

\* a run that read the locked file, wrote it back, opened the outputs and
\* has written two records
C17_Witness ==
    /\ pc = "loop"
    /\ Len(events) = 5
    /\ SubSeq(events, 1, 3) = <<"read locked", "write locked", "open outputs">>
    /\ events[5] = "write record"
    /\ Len(all_f) = 2

\* C18: once a run has written the locked file, the file lists no identifier
\* more than once, whatever data/urls.txt and the previous locked file held.
C18_NoIdentifierTwice ==
    pc \in {"written", "loop", "done"} => NoRepeat(OnDisk)

\* C19: once a run has written the locked file, every line of the file is
\* an identifier of the universe and none is blank, also when the universe is
\* empty.
C19_NoBlankLine ==
    pc \in {"written", "loop", "done"} =>
        /\ eval_urls_txt.exists
        /\ \A n \in 1..Len(eval_urls_txt.lines) :
              /\ eval_urls_txt.lines[n] # Blank
              /\ eval_urls_txt.lines[n] \in Range(urls)

\* C23: when the locked file lists an identifier of the universe on more
\* than one line (the universe itself listing no URL twice), the reconciled
\* list holds that identifier exactly once.
C23_RepeatedLinesCollapse ==
    (pc = "reconciled" /\ eval_urls_txt.exists /\ NoRepeat(urls)) =>
        \A u \in Range(OnDisk) \cap Range(urls) :
            Count(u, OnDisk) > 1 => Count(u, saved_eval) = 1

\* C26: in runs that start from an absent locked file on universes that
\* list no identifier twice, whatever the universes of the earlier runs were,
\* the list a run writes has exactly min(15, size of the run's universe)
\* entries, and so never more than 15.
C26_ExactlyMinFromAbsent ==
    pc \in {"written", "loop", "done"} =>
        /\ Len(OnDisk) = Min(TargetSize, Cardinality(Range(urls)))
        /\ Len(OnDisk) <= TargetSize
        /\ Len(saved_eval) = Len(OnDisk)

\* a list of 15 written for a universe of 16 by a run that follows a run on a
\* universe that was neither the same nor a part of it
C26_Witness ==
    /\ pc = "written"
    /\ rel = "other"
    /\ Len(urls) = 16
    /\ Len(OnDisk) = TargetSize

\* C27: a run that finds a locked list of 15 entries, all of them in its
\* universe, reconciles to that very list, so the list and the eval set do not
\* change, whatever other identifiers the universe holds.
C27_FullListUnchangedByAdditions ==
    (/\ pc = "reconciled"
     /\ Len(OnDisk) = TargetSize
     /\ Range(OnDisk) \subseteq Range(urls))
    => (saved_eval = OnDisk /\ Range(saved_eval) = Range(OnDisk))

\* a run that finds 15 locked entries and a universe that holds them and a new
\* identifier whose digest is smaller than that of every locked entry
C27_Witness ==
    /\ pc = "reconciled"
    /\ Len(OnDisk) = TargetSize
    /\ Range(OnDisk) \subseteq Range(urls)
    /\ \E u \in Range(urls) \ Range(OnDisk) :
          \A v \in Range(OnDisk) : HexLess(hexdigest(u), hexdigest(v))
    /\ saved_eval = OnDisk

(***************************************************************************)
(* Properties of the ratio build and of assign_split.                      *)
(***************************************************************************)
\* C14: under the ratio policy the label of an identifier is the same in
\* every call and in every run, whatever the other identifiers of the
\* universe and whatever the earlier runs were: no identifier is ever labelled
\* both train and eval, and no identifier has records in both outputs.
C14_OneLabelPerIdentifier ==
    /\ everEval \cap everTrain = {}
    /\ pc \in {"ratio_loop", "ratio_done"} => Range(train_f) \cap Range(eval_f) = {}

\* a run on a universe of 16 that has labelled identifiers of both splits,
\* after an earlier run on another universe that labelled an identifier that
\* this universe does not hold
C14_Witness ==
    /\ pc = "ratio_loop"
    /\ Len(urls) = 16
    /\ "a" \in (everEval \cup everTrain) \ Range(urls)
    /\ train_f # <<>>
    /\ eval_f # <<>>

\* int(md5 digest, 16) % 1000 of every identifier, as Python computes it
RemainderOfDigest ==
    ("a" :> 497) @@ ("b" :> 343) @@ ("c" :> 443) @@ ("d" :> 53) @@ ("e" :> 266) @@ ("f" :> 159)
    @@ ("g" :> 253) @@ ("h" :> 913) @@ ("i" :> 177) @@ ("j" :> 805) @@ ("k" :> 43) @@ ("l" :> 707)
    @@ ("m" :> 211) @@ ("n" :> 905) @@ ("o" :> 468) @@ ("p" :> 666) @@ (X1 :> 57) @@ (X2 :> 57)

\* C15: assign_split maps the identifier's hash h to (h mod 1000) / 1000,
\* which is at least 0 and less than 1, and returns train exactly when that
\* value is less than the ratio, that is when (h mod 1000) < 1000 * ratio,
\* and eval otherwise.
C15_TrainIffBelowRatio ==
    as_pc = "called" =>
        /\ as_val = Frac(RemainderOfDigest[as_url], 1000)
        /\ 0 <= as_val.num /\ as_val.num < as_val.den
        /\ as_out \in {"train", "eval"}
        /\ as_out = "train" <=>
              RemainderOfDigest[as_url] * as_ratio.den < 1000 * as_ratio.num

\* a call whose value is equal to the ratio: the identifier is eval
C15_Witness ==
    /\ as_pc = "called"
    /\ as_url = "a"
    /\ as_ratio = Frac(497, 1000)
    /\ as_val = as_ratio
    /\ as_out = "eval"

(***************************************************************************)
(* Properties of both builds.                                              *)
(***************************************************************************)
\* the label the running build gives a URL
LabelOf(u) ==
    IF pc \in {"ratio_loop", "ratio_done"} THEN assign_split(u, TrainRatio)
    ELSE split_of(u, eval_set)

\* C20: in both builds, during and after the loop, every iteration whose
\* fetch succeeded has written one record to the combined output and one to
\* the output of the URL's label and none to the other: the train output holds
\* only train-labelled URLs, the eval output only eval-labelled ones, no URL
\* is in both, and the combined output holds every URL as many times as the
\* train and eval outputs together.
C20_CombinedIsDisjointUnion ==
    pc \in {"loop", "done", "ratio_loop", "ratio_done"} =>
        /\ Len(all_f) = idx - failures
        /\ \A u \in Range(urls) :
              Count(u, all_f) <= Count(u, SubSeq(urls, 1, idx))
        /\ failures = 0 => all_f = SubSeq(urls, 1, idx)
        /\ \A u \in Range(train_f) : LabelOf(u) = "train"
        /\ \A u \in Range(eval_f) : LabelOf(u) = "eval"
        /\ Range(train_f) \cap Range(eval_f) = {}
        /\ \A u \in Range(all_f) \cup Range(train_f) \cup Range(eval_f) :
              Count(u, all_f) = Count(u, train_f) + Count(u, eval_f)

\* the end of a ratio-build run in which one fetch failed and records were
\* written to both the train and the eval output
C20_Witness ==
    /\ pc = "ratio_done"
    /\ failures = 1
    /\ Len(all_f) = Len(urls) - 1
    /\ train_f # <<>>
    /\ eval_f # <<>>

\* the iterations of this run's loop whose fetch returned, in order: the
\* iteration n is the n-th entry of events after the opening of the outputs
OpenedAt == CHOOSE n \in 1..Len(events) : events[n] = "open outputs"
Fetched ==
    SelectSeq([n \in 1..idx |-> n],
              LAMBDA n : events[OpenedAt + n] = "write record")
FetchedUrls == [n \in 1..Len(Fetched) |-> urls[Fetched[n]]]

\* C21: in both builds, during and after the loop, the outputs are what the
\* iterations whose fetch returned wrote, in order, each record in the output
\* of its label: an iteration whose fetch failed wrote nothing, the iterations
\* after it were carried out as without the failure, and the run ends only
\* when every line of the universe has had its iteration.
C21_FailedFetchSkipped ==
    pc \in {"loop", "done", "ratio_loop", "ratio_done"} =>
        /\ Len(events) = OpenedAt + idx
        /\ Len(Fetched) = idx - failures
        /\ all_f = FetchedUrls
        /\ train_f = SelectSeq(FetchedUrls, LAMBDA u : LabelOf(u) = "train")
        /\ eval_f = SelectSeq(FetchedUrls, LAMBDA u : LabelOf(u) = "eval")
        /\ pc \in {"done", "ratio_done"} => idx = Len(urls)

\* the end of a top-k run in which the fetch of a URL that is listed once
\* failed and the record of the URL after it was written
C21_Witness ==
    /\ pc = "done"
    /\ failures = 1
    /\ \E n \in 1..(idx - 1) :
          /\ events[OpenedAt + n] = "fetch failed"
          /\ events[OpenedAt + n + 1] = "write record"
          /\ urls[n] \notin Range(all_f)
          /\ urls[n + 1] \in Range(all_f)

\* the iterations of this run's loop whose fetch failed for an eval URL
FailedEval ==
    {n \in 1..idx : events[OpenedAt + n] = "fetch failed" /\ urls[n] \in eval_set}

\* C28: a failed fetch leaves the locked list alone: during and after the
\* loop the file holds the reconciled list whether or not a fetch failed; the
\* next run on the same universe keeps every entry the file holds, also the
\* entries that have no record in the eval output; and at the end of a run in
\* which the fetch of an eval URL failed the eval output holds fewer records
\* than the locked list has entries.
C28_FailedFetchKeepsLocked ==
    /\ pc \in {"loop", "done"} =>
          (OnDisk = saved_eval /\ eval_set = Range(saved_eval))
    /\ (pc = "reconciled" /\ rel = "same") => saved_eval = OnDisk
    /\ (pc = "done" /\ FailedEval # {}) => Len(eval_f) < Len(saved_eval)

\* C29: in both builds the outputs are empty when the loop starts, and when a
\* run has ended they hold the records of the URLs of this run's universe
\* whose fetch returned in this run and nothing else; of what earlier runs
\* left, only the locked file enters the reconciled list.
C29_OutputsRebuilt ==
    /\ (pc \in {"loop", "ratio_loop"} /\ idx = 0) =>
          (all_f = <<>> /\ train_f = <<>> /\ eval_f = <<>>)
    /\ pc \in {"done", "ratio_done"} =>
          /\ all_f = FetchedUrls
          /\ Range(train_f) \cup Range(eval_f) \subseteq Range(FetchedUrls)
          /\ Len(train_f) + Len(eval_f) = Len(FetchedUrls)
    /\ pc = "reconciled" =>
          saved_eval = IF ~eval_urls_txt.exists
                       THEN deterministic_top_k(urls, TargetSize)
                       ELSE IF Len(StillPresent) >= TargetSize THEN StillPresent
                       ELSE StillPresent \o
                            deterministic_top_k(NotOnDisk, TargetSize - Len(StillPresent))

\* the end of a run on 14 URLs that follows a run on a universe with a URL
\* that this one does not hold
C29_Witness ==
    /\ pc = "done"
    /\ rel = "other"
    /\ Len(urls) = 14
    /\ all_f = urls

(***************************************************************************)
(* Further properties of deterministic_top_k and assign_split.             *)
(***************************************************************************)
\* C22: no call of deterministic_top_k with a negative k returns a selection
\* and no call of assign_split with a ratio below 0 or not below 1 returns a
\* label: such a call ends in a configuration error instead.
C22_InvalidConfigurationRejected ==
    /\ ~(tk_pc \in {"called", "both"} /\ tk_k < 0)
    /\ ~(/\ as_pc = "called"
         /\ \/ FracLess(as_ratio, Frac(0, 1))
            \/ ~FracLess(as_ratio, Frac(1, 1)))

\* C30: assign_split is monotone in the ratio: an identifier that is train
\* under a ratio is train under every ratio that is not smaller; under ratio 0
\* every identifier is eval and under ratio 1 every identifier is train.
C30_MonotoneInRatio ==
    /\ (as_pc = "both" /\ ~FracLess(as_ratio2, as_ratio) /\ as_out = "train")
          => as_out2 = "train"
    /\ (as_pc \in {"called", "both"} /\ as_ratio = Frac(0, 1)) => as_out = "eval"
    /\ (as_pc \in {"called", "both"} /\ as_ratio = Frac(1, 1)) => as_out = "train"

\* an identifier that is train under 0.5 and under the larger 0.8
C30_Witness ==
    /\ as_pc = "both"
    /\ as_ratio = Frac(1, 2)
    /\ as_ratio2 = Frac(8, 10)
    /\ as_out = "train"
    /\ as_out2 = "train"

(***************************************************************************)
(* Properties of main_exploratory.                                         *)
(***************************************************************************)
\* C24: the calls of run_model_on_file are the pairs (saved record, model),
\* records in order and models in order within a record, each pair once; a
\* call that ends with a non-zero exit, a timeout or an exception is followed
\* by the remaining calls; total_runs is the number of models times the
\* number of saved records, and at the end every pair has been attempted and
\* successful_runs, the number of calls that exited with 0, is at most
\* total_runs.
C24_EveryPairOnceInOrder ==
    me_pc \in {"running", "finished"} =>
        /\ total_runs = Len(models) * Len(saved_files)
        /\ Len(attempts) <= total_runs
        /\ \A n \in 1..Len(attempts) :
              /\ attempts[n][1] = saved_files[((n - 1) \div Len(models)) + 1]
              /\ attempts[n][2] = models[((n - 1) % Len(models)) + 1]
        /\ \A m, n \in 1..Len(attempts) :
              m # n => <<attempts[m][1], attempts[m][2]>> # <<attempts[n][1], attempts[n][2]>>
        /\ successful_runs =
              Cardinality({n \in 1..Len(attempts) : attempts[n][3] = "exit 0"})
        /\ successful_runs <= total_runs
        /\ me_pc = "finished" => Len(attempts) = total_runs

\* the end of a run of three models on three records in which the second
\* call timed out and the seven calls after it were made
C24_Witness ==
    /\ me_pc = "finished"
    /\ Len(models) = 3
    /\ Len(saved_files) = 3
    /\ Len(attempts) = 9
    /\ attempts[2][3] = "timeout"
    /\ successful_runs = 8

\* C25: once the keys have been checked, the script has gone on (it has
\* models to run) when at least one of the four API key variables has a
\* value, and it has exited with status 1 with no data loaded and no model
\* run when none has.
C25_AnyOfFourKeysSuffices ==
    me_pc # "start" =>
        /\ (\E key \in EnvKeys : Truthy(environ[key])) =>
              (models # <<>> /\ (me_pc = "exit 1" => train_jsonl.count = 0))
        /\ (\A key \in EnvKeys : ~Truthy(environ[key])) =>
              (me_pc = "exit 1" /\ records = 0 /\ attempts = <<>>)

====
